---- MODULE Spec2Model ----
(***************************************************************************)
(* A model of src/main.py: the pure function add_two_numbers and the      *)
(* driver main, together with the pieces of the Python runtime that main  *)
(* relies on: float() on a line of text, the + of int and of float (IEEE  *)
(* 754 binary64, round to nearest even), and the text an f-string makes   *)
(* of an int, of a float and of a ValueError.                             *)
(***************************************************************************)
EXTENDS Integers, Sequences, FiniteSets, TLC

VARIABLES
    pc,             \* where main stands: the statement it runs next
    stdin,          \* the lines standard input holds; end of input after them
    stdin_pos,      \* how many of them were read
    stdout,         \* what was written to standard output, one entry for each write
    stderr,         \* what was written to standard error
    line,           \* the str input() returned last
    num1, num2, result,                  \* main's locals, None while unbound
    user_num1, user_num2, user_result,
    exc,            \* the exception raised and not yet handled, or None
    exit_status,    \* <<>> while the process runs, <<n>> once it has ended with status n
    args, sums      \* the operands and the sums of add_two_numbers called on its own

mainVars == <<pc, stdin, stdin_pos, stdout, stderr, line, num1, num2, result,
              user_num1, user_num2, user_result, exc, exit_status>>

vars == <<mainVars, args, sums>>

-----------------------------------------------------------------------------
(* Characters of a Python str.  A str is a TLA+ string; Char(s, i) is s[i-1]. *)

Char(s, i) == SubSeq(s, i, i)

DigitChars == "0123456789"
UpperChars == "ABCDEFGHIJKLMNOPQRSTUVWXYZ"
LowerChars == "abcdefghijklmnopqrstuvwxyz"

IsDigit(ch) == \E d \in 1..10 : Char(DigitChars, d) = ch

DigitVal(ch) == (CHOOSE d \in 1..10 : Char(DigitChars, d) = ch) - 1

DigitChar(d) == Char(DigitChars, d + 1)

ToLower(ch) ==
    IF \E k \in 1..26 : Char(UpperChars, k) = ch
    THEN Char(LowerChars, CHOOSE k \in 1..26 : Char(UpperChars, k) = ch)
    ELSE ch

RECURSIVE LowerStr(_)
LowerStr(s) == IF Len(s) = 0 THEN "" ELSE ToLower(Char(s, 1)) \o LowerStr(SubSeq(s, 2, Len(s)))

\* Py_ISSPACE, for the characters a line of input can hold
IsSpace(ch) == ch \in {" ", "\t", "\r", "\f"}

-----------------------------------------------------------------------------
(* Natural numbers of any size, as sequences of limbs in base 2^15, least *)
(* significant limb first, with no leading (high) zero limb: <<>> is 0.   *)

Base == 2^15
LimbBits == CHOOSE k \in 1..30 : 2^k = Base

Max(a, b) == IF a >= b THEN a ELSE b
Min(a, b) == IF a <= b THEN a ELSE b
Abs(n) == IF n < 0 THEN -n ELSE n

Limb(x, i) == IF i >= 1 /\ i <= Len(x) THEN x[i] ELSE 0

\* x without its high zero limbs
BTrim(x) ==
    LET n == IF \E i \in 1..Len(x) : x[i] # 0
             THEN CHOOSE i \in 1..Len(x) : x[i] # 0 /\ \A j \in (i + 1)..Len(x) : x[j] = 0
             ELSE 0
    IN  SubSeq(x, 1, n)

RECURSIVE BFromNat(_)
BFromNat(n) == IF n = 0 THEN <<>> ELSE <<n % Base>> \o BFromNat(n \div Base)

\* for x below 2^31
RECURSIVE BToNat(_)
BToNat(x) == IF x = <<>> THEN 0 ELSE x[1] + Base * BToNat(Tail(x))

\* the number of bits of n: 0 for 0
RECURSIVE NatBits(_)
NatBits(n) == IF n = 0 THEN 0 ELSE 1 + NatBits(n \div 2)

\* the number of bits of x: 0 for 0
BLen(x) == IF x = <<>> THEN 0 ELSE LimbBits * (Len(x) - 1) + NatBits(x[Len(x)])

\* bit i of x, the lowest being bit 1
Bit(x, i) ==
    IF i < 1 THEN 0
    ELSE (Limb(x, (i - 1) \div LimbBits + 1) \div 2^((i - 1) % LimbBits)) % 2

\* whether one of the n lowest bits of x is set
LowBitsSet(x, n) ==
    \E i \in 1..Len(x) :
        /\ (i - 1) * LimbBits < n
        /\ IF i * LimbBits <= n THEN x[i] # 0 ELSE x[i] % 2^(n - (i - 1) * LimbBits) # 0

\* the carry into limb i of x + y: a limb below overflows and all between pass it on
Carry(x, y, i) ==
    IF \E j \in 1..(i - 1) :
           /\ Limb(x, j) + Limb(y, j) >= Base
           /\ \A k \in (j + 1)..(i - 1) : Limb(x, k) + Limb(y, k) = Base - 1
    THEN 1 ELSE 0

BAdd(x, y) ==
    BTrim([i \in 1..(Max(Len(x), Len(y)) + 1) |->
              (Limb(x, i) + Limb(y, i) + Carry(x, y, i)) % Base])

\* the borrow from limb i of x - y
Borrow(x, y, i) ==
    IF \E j \in 1..(i - 1) :
           /\ Limb(x, j) < Limb(y, j)
           /\ \A k \in (j + 1)..(i - 1) : Limb(x, k) = Limb(y, k)
    THEN 1 ELSE 0

\* x - y, for x >= y
BSub(x, y) ==
    BTrim([i \in 1..Len(x) |-> (Limb(x, i) - Limb(y, i) - Borrow(x, y, i)) % Base])

\* -1, 0 or 1 as x < y, x = y, x > y
BCmp(x, y) ==
    IF Len(x) > Len(y) THEN 1
    ELSE IF Len(x) < Len(y) THEN -1
    ELSE IF x = y THEN 0
    ELSE LET i == CHOOSE i \in 1..Len(x) :
                      x[i] # y[i] /\ \A j \in (i + 1)..Len(x) : x[j] = y[j]
         IN  IF x[i] > y[i] THEN 1 ELSE -1

\* x * Base^k
BShlLimbs(x, k) == IF x = <<>> THEN <<>> ELSE [i \in 1..k |-> 0] \o x

\* x * d, for a limb d: the low halves of the limb products plus the high halves
BMulLimb(x, d) ==
    BAdd(BTrim([i \in 1..Len(x) |-> (x[i] * d) % Base]),
         BShlLimbs(BTrim([i \in 1..Len(x) |-> (x[i] * d) \div Base]), 1))

\* x * 2^k
BShl(x, k) == BShlLimbs(BMulLimb(x, 2^(k % LimbBits)), k \div LimbBits)

\* x \div 2^k
BShr(x, k) ==
    LET a == k \div LimbBits
        b == k % LimbBits
    IN  IF a >= Len(x) THEN <<>>
        ELSE BTrim([i \in 1..(Len(x) - a) |->
                       Limb(x, i + a) \div 2^b + (Limb(x, i + a + 1) % 2^b) * 2^(LimbBits - b)])

\* x times the limbs lo..hi of y, each in its place
RECURSIVE BMulRange(_, _, _, _)
BMulRange(x, y, lo, hi) ==
    IF lo > hi THEN <<>>
    ELSE IF lo = hi THEN BShlLimbs(BMulLimb(x, y[lo]), lo - 1)
    ELSE LET mid == (lo + hi) \div 2
         IN  BAdd(BMulRange(x, y, lo, mid), BMulRange(x, y, mid + 1, hi))

BMul(x, y) == BMulRange(x, y, 1, Len(y))

\* the largest q in lo..hi with y * q <= r, given y * lo <= r
RECURSIVE QuotSearch(_, _, _, _)
QuotSearch(r, y, lo, hi) ==
    IF lo >= hi THEN lo
    ELSE LET mid == (lo + hi + 1) \div 2
         IN  IF BCmp(BMulLimb(y, mid), r) <= 0
             THEN QuotSearch(r, y, mid, hi)
             ELSE QuotSearch(r, y, lo, mid - 1)

\* r \div y, a limb, for r < y * Base: with rt the limbs of r from the place of y's
\* high limb yt on, rt \div (yt + 1) <= r \div y <= rt \div yt
QuotLimb(r, y) ==
    LET n == Len(y)
        yt == y[n]
        rt == Limb(r, n) + Base * Limb(r, n + 1)
    IN  QuotSearch(r, y, rt \div (yt + 1), Min(Base - 1, rt \div yt))

\* long division of the limbs i..1 of x by y, r being what is left of the limbs above
RECURSIVE BDivModFrom(_, _, _, _)
RECURSIVE BDivModLimb(_, _, _, _)
RECURSIVE BDivModRest(_, _, _, _, _)
BDivModFrom(x, y, i, r) ==
    IF i = 0 THEN <<<<>>, r>> ELSE BDivModLimb(x, y, i, BTrim(<<x[i]>> \o r))

BDivModLimb(x, y, i, r2) == BDivModRest(x, y, i, r2, QuotLimb(r2, y))

BDivModRest(x, y, i, r2, q) ==
    LET WithLimb(rest) == <<Append(rest[1], q), rest[2]>>
    IN  WithLimb(BDivModFrom(x, y, i - 1, BSub(r2, BMulLimb(y, q))))

\* <<x \div y, x % y>> for y # 0.  Both are first shifted so that y's high limb is
\* at least Base / 2, which keeps the search for each limb of the quotient short;
\* the Len(y) - 1 high limbs of x are below y.
BDivMod(x, y) ==
    LET sh == LimbBits - NatBits(y[Len(y)])
        Unshift(qr) == <<BTrim(qr[1]), BShr(qr[2], sh)>>
        Divide(xs, ys) ==
            IF Len(xs) < Len(ys) THEN <<<<>>, xs>>
            ELSE BDivModFrom(xs, ys, Len(xs) - Len(ys) + 1,
                             SubSeq(xs, Len(xs) - Len(ys) + 2, Len(xs)))
    IN  Unshift(Divide(BShl(x, sh), BShl(y, sh)))

BSquare(x) == BMul(x, x)

RECURSIVE BPow(_, _)
BPow(x, k) ==
    IF k = 0 THEN <<1>>
    ELSE IF k % 2 = 1 THEN BMul(BSquare(BPow(x, k \div 2)), x)
    ELSE BSquare(BPow(x, k \div 2))

BOne == <<1>>
BFive == <<5>>
BTen == <<10>>

\* the number a string of at most 9 decimal digits writes
RECURSIVE NatFromDigits(_)
NatFromDigits(s) ==
    IF Len(s) = 0 THEN 0
    ELSE 10 * NatFromDigits(SubSeq(s, 1, Len(s) - 1)) + DigitVal(Char(s, Len(s)))

\* the decimal digits of n, "" for 0
RECURSIVE NatToDigits(_)
NatToDigits(n) == IF n = 0 THEN "" ELSE NatToDigits(n \div 10) \o DigitChar(n % 10)

\* the number a string of decimal digits writes: that of its first half, moved
\* left by the length of the second half, plus that of the second half
RECURSIVE BFromDigits(_)
BFromDigits(s) ==
    IF Len(s) <= 9 THEN BFromNat(NatFromDigits(s))
    ELSE LET h == Len(s) \div 2
         IN  BAdd(BMul(BFromDigits(SubSeq(s, 1, Len(s) - h)), BPow(BTen, h)),
                  BFromDigits(SubSeq(s, Len(s) - h + 1, Len(s))))

RECURSIVE Zeros(_)
Zeros(k) == IF k <= 0 THEN "" ELSE "0" \o Zeros(k - 1)

\* the decimal digits of x, "" for 0, four at a time
RECURSIVE BToDigits(_)
BToDigits(x) ==
    LET Four(ds) == Zeros(4 - Len(ds)) \o ds
        Digits(qr) == BToDigits(qr[1]) \o Four(NatToDigits(BToNat(qr[2])))
    IN  IF Len(x) <= 2 THEN NatToDigits(BToNat(x)) ELSE Digits(BDivMod(x, <<10000>>))

\* the number of low zero bits of x, 0 for 0
LowZeros(x) ==
    IF x = <<>> THEN 0
    ELSE LET i == CHOOSE i \in 1..Len(x) : x[i] # 0 /\ \A j \in 1..(i - 1) : x[j] = 0
             k == CHOOSE k \in 0..(LimbBits - 1) : x[i] % 2^k = 0 /\ x[i] % 2^(k + 1) # 0
         IN  (i - 1) * LimbBits + k

-----------------------------------------------------------------------------
(* Python numbers.  An int is exact.  A float is an IEEE 754 binary64:    *)
(* nan, an infinity, or (-1)^s * m * 2^e with m odd (or m = 0, e = 0);    *)
(* m is kept as bits.                                                      *)

MantDig == 53       \* sys.float_info.mant_dig
MaxExp == 1024      \* sys.float_info.max_exp: every finite float is below 2^1024
MinSubExp == -1074  \* the last place of a subnormal float is 2^-1074

PyInt(n) == [t |-> "int", v |-> n]

NaN == [t |-> "float", c |-> "nan", s |-> 0, m |-> <<>>, e |-> 0]
Inf(s) == [t |-> "float", c |-> "inf", s |-> s, m |-> <<>>, e |-> 0]
Zero(s) == [t |-> "float", c |-> "fin", s |-> s, m |-> <<>>, e |-> 0]

\* the float (-1)^s * M * 2^E, for M of at most MantDig bits
MkFin(s, M, E) ==
    IF M = <<>> THEN Zero(s)
    ELSE LET z == LowZeros(M)
         IN  [t |-> "float", c |-> "fin", s |-> s, m |-> BShr(M, z), e |-> E + z]

\* The float nearest to (-1)^s * (M + f) * 2^E, ties to even, where 0 <= f < 1
\* and f > 0 exactly if sticky (M then has more than MantDig + 1 bits).
\* q is the place of the last bit kept: MantDig bits, fewer below 2^-1022.
RoundToDouble(s, M, E, sticky) ==
    LET q == Max(E + BLen(M) - MantDig, MinSubExp)
        d == q - E
        Finish(r) == IF BLen(r) + q > MaxExp THEN Inf(s) ELSE MkFin(s, r, q)
        Round(kept) ==
            IF Bit(M, d) = 1 /\ (sticky \/ LowBitsSet(M, d - 1) \/ Bit(kept, 1) = 1)
            THEN Finish(BAdd(kept, BOne))
            ELSE Finish(kept)
    IN  IF M = <<>> THEN Zero(s)
        ELSE IF d <= 0 THEN (IF BLen(M) + E > MaxExp THEN Inf(s) ELSE MkFin(s, M, E))
        ELSE Round(BShr(M, d))

\* float(n) of an int n
FromInt(n) == RoundToDouble(IF n < 0 THEN 1 ELSE 0, BFromNat(Abs(n)), 0, FALSE)

\* x + y of two floats
FloatAdd(x, y) ==
    LET E == Min(x.e, y.e)
        Aligned(X, Y) ==
            IF x.s = y.s THEN RoundToDouble(x.s, BAdd(X, Y), E, FALSE)
            ELSE IF BCmp(X, Y) = 0 THEN Zero(0)
            ELSE IF BCmp(X, Y) > 0 THEN RoundToDouble(x.s, BSub(X, Y), E, FALSE)
            ELSE RoundToDouble(y.s, BSub(Y, X), E, FALSE)
    IN  IF x.c = "nan" \/ y.c = "nan" THEN NaN
        ELSE IF x.c = "inf" THEN (IF y.c = "inf" /\ y.s # x.s THEN NaN ELSE x)
        ELSE IF y.c = "inf" THEN y
        ELSE IF x.m = <<>> /\ y.m = <<>> THEN Zero(IF x.s = 1 /\ y.s = 1 THEN 1 ELSE 0)
        ELSE IF x.m = <<>> THEN y
        ELSE IF y.m = <<>> THEN x
        ELSE Aligned(BShl(x.m, x.e - E), BShl(y.m, y.e - E))

\* Python's a + b for int and float operands
PyAdd(a, b) ==
    IF a.t = "int" /\ b.t = "int" THEN PyInt(a.v + b.v)
    ELSE FloatAdd(IF a.t = "int" THEN FromInt(a.v) ELSE a,
                  IF b.t = "int" THEN FromInt(b.v) ELSE b)

\* Python's a == b for int and float operands: nan equals nothing, -0.0 equals 0.0
PyEq(a, b) ==
    IF a.t = "int" /\ b.t = "int" THEN a.v = b.v
    ELSE LET x == IF a.t = "int" THEN FromInt(a.v) ELSE a
             y == IF b.t = "int" THEN FromInt(b.v) ELSE b
         IN  /\ x.c # "nan"
             /\ y.c # "nan"
             /\ \/ x = y
                \/ x.c = "fin" /\ y.c = "fin" /\ x.m = <<>> /\ y.m = <<>>

\* the float nearest to (-1)^s * N * 10^E10 (what strtod makes of a decimal numeral)
DecToDouble(s, N, E10) ==
    LET Quot(k, qr) == RoundToDouble(s, qr[1], E10 - k, qr[2] # <<>>)
        Shifted(D, k) == Quot(k, BDivMod(BShl(N, k), D))
        Over(D) == Shifted(D, Max(0, BLen(D) - BLen(N) + MantDig + 3))
    IN  IF N = <<>> THEN Zero(s)
        ELSE IF E10 >= 310 THEN Inf(s)
        ELSE IF BLen(N) + 3 * E10 <= -1076 THEN Zero(s)
        ELSE IF E10 >= 0 THEN RoundToDouble(s, BMul(N, BPow(BFive, E10)), E10, FALSE)
        ELSE Over(BPow(BFive, -E10))

-----------------------------------------------------------------------------
(* str() of a number, as an f-string field {x} writes it. *)

\* str(n) of an int
IntStr(n) == IF n = 0 THEN "0" ELSE (IF n < 0 THEN "-" ELSE "") \o NatToDigits(Abs(n))

RECURSIVE StripZeros(_)
StripZeros(ds) ==
    IF Len(ds) > 1 /\ Char(ds, Len(ds)) = "0" THEN StripZeros(SubSeq(ds, 1, Len(ds) - 1)) ELSE ds

\* A / B < 10^p
Lt10(A, B, p) ==
    BCmp(BMul(A, BPow(BTen, Max(-p, 0))), BMul(B, BPow(BTen, Max(p, 0)))) < 0

\* the least q >= p with A / B < 10^q
RECURSIVE DecPtFrom(_, _, _)
DecPtFrom(A, B, p) == IF Lt10(A, B, p) THEN p ELSE DecPtFrom(A, B, p + 1)

\* a p with 10^p <= 2^n
LowLog10(n) == IF n >= 0 THEN (n * 30) \div 100 ELSE (n * 31) \div 100

\* The numeral of nd digits nearest to x = A / B (10^(p-1) <= x < 10^p) that float()
\* reads back as x, as <<digits, decpt>> for 0.digits * 10^decpt; <<>> if there is
\* none.  The two to try are q and q + 1, for q = floor(x * 10^(nd - p)); q + 1 is
\* the nearer one if twice the remainder is above the divisor (or equal, and q odd).
Candidate(x, A, B, p, nd) ==
    LET Written(ds) == <<StripZeros(ds), p + (Len(ds) - nd)>>
        Chosen(q, pick) ==
            IF pick < 0 THEN <<>> ELSE Written(BToDigits(BAdd(q, BFromNat(pick))))
        Pick(q, ok, half) ==
            Chosen(q, IF ok[0]
                      THEN (IF (half > 0 \/ (half = 0 /\ Bit(q, 1) = 1)) /\ ok[1] THEN 1 ELSE 0)
                      ELSE IF ok[1] THEN 1 ELSE -1)
        Try(den, qr) ==
            Pick(qr[1],
                 [j \in 0..1 |-> DecToDouble(x.s, BAdd(qr[1], BFromNat(j)), p - nd) = x],
                 BCmp(BShl(qr[2], 1), den))
        Scaled(num, den) == Try(den, BDivMod(num, den))
    IN  Scaled(BMul(A, BPow(BTen, Max(nd - p, 0))), BMul(B, BPow(BTen, Max(p - nd, 0))))

\* The candidate of the fewest digits among those of lo..hi digits, or best if there
\* is none: with a candidate of nd digits there is one of nd + 1.  One to three
\* digits are tried in turn, the rest by halving.
RECURSIVE ShortestIn(_, _, _, _, _, _, _)
ShortestIn(x, A, B, p, lo, hi, best) ==
    LET Tried(mid, c) ==
            ShortestIn(x, A, B, p, IF c # <<>> THEN lo ELSE mid + 1,
                       IF c # <<>> THEN mid - 1 ELSE hi, IF c # <<>> THEN c ELSE best)
        Try(mid) == Tried(mid, Candidate(x, A, B, p, mid))
    IN  IF lo > hi THEN best
        ELSE Try(IF lo < 4 THEN lo ELSE (lo + hi) \div 2)

\* the shortest decimal numeral that reads back as A / B = x
ShortestOf(x, A, B) ==
    ShortestIn(x, A, B, DecPtFrom(A, B, LowLog10(BLen(A) - BLen(B) - 1) + 1), 1, 17, <<>>)

\* the shortest decimal numeral that float() reads back as x (x finite, not 0),
\* the nearest to x among the shortest; seventeen digits tell any two floats apart
Shortest(x) == ShortestOf(x, BShl(x.m, Max(x.e, 0)), BShl(BOne, Max(-x.e, 0)))

\* the exponent of a float's repr: a sign and at least two digits
ExpStr(n) ==
    (IF n < 0 THEN "-" ELSE "+") \o (IF Abs(n) < 10 THEN "0" ELSE "") \o IntStr(Abs(n))

\* repr(x) of a float (float_repr_style 'short'), which str(x) and {x} give
FloatStr(x) ==
    LET Body(ds, decpt) ==
            IF decpt <= -4 \/ decpt > 16
            THEN Char(ds, 1)
                 \o (IF Len(ds) > 1 THEN "." \o SubSeq(ds, 2, Len(ds)) ELSE "")
                 \o "e" \o ExpStr(decpt - 1)
            ELSE IF decpt <= 0 THEN "0." \o Zeros(-decpt) \o ds
            ELSE IF decpt < Len(ds)
            THEN SubSeq(ds, 1, decpt) \o "." \o SubSeq(ds, decpt + 1, Len(ds))
            ELSE ds \o Zeros(decpt - Len(ds)) \o ".0"
        Format(sh) == (IF x.s = 1 THEN "-" ELSE "") \o Body(sh[1], sh[2])
    IN  IF x.c = "nan" THEN "nan"
        ELSE IF x.c = "inf" THEN (IF x.s = 1 THEN "-inf" ELSE "inf")
        ELSE IF x.m = <<>> THEN (IF x.s = 1 THEN "-0.0" ELSE "0.0")
        ELSE Format(Shortest(x))

\* str(v) of an int or a float
PyStr(v) == IF v.t = "int" THEN IntStr(v.v) ELSE FloatStr(v)

\* repr(s) of a str that holds no quote, backslash or unprintable character
StrRepr(s) == "'" \o s \o "'"

-----------------------------------------------------------------------------
(* float(s) of a str: the float, or the ValueError it raises. *)

RECURSIVE SkipDigits(_, _)
SkipDigits(s, i) == IF i <= Len(s) /\ IsDigit(Char(s, i)) THEN SkipDigits(s, i + 1) ELSE i

RECURSIVE SkipSpace(_, _)
SkipSpace(s, i) == IF i <= Len(s) /\ IsSpace(Char(s, i)) THEN SkipSpace(s, i + 1) ELSE i

\* the end of s once its trailing whitespace is dropped; the first character stays
RECURSIVE SkipSpaceBack(_, _)
SkipSpaceBack(s, j) == IF j > 1 /\ IsSpace(Char(s, j)) THEN SkipSpaceBack(s, j - 1) ELSE j

\* an underscore is allowed only between two digits
UnderscoresOk(s) ==
    \A i \in 1..Len(s) :
        Char(s, i) = "_" =>
            /\ i > 1 /\ IsDigit(Char(s, i - 1))
            /\ i < Len(s) /\ IsDigit(Char(s, i + 1))

RECURSIVE DropUnderscores(_)
DropUnderscores(s) ==
    IF Len(s) = 0 THEN ""
    ELSE (IF Char(s, 1) = "_" THEN "" ELSE Char(s, 1)) \o DropUnderscores(SubSeq(s, 2, Len(s)))

\* a run of exponent digits as a number, capped where the result no longer depends on it
RECURSIVE ExpValFrom(_, _, _)
ExpValFrom(s, i, acc) ==
    IF i > Len(s) THEN acc
    ELSE ExpValFrom(s, i + 1, Min(100000, acc * 10 + DigitVal(Char(s, i))))

Failed == [ok |-> FALSE, val |-> NaN]
Parsed(x) == [ok |-> TRUE, val |-> x]

\* strtod on t, which must be used up: [sign] digits [. digits] [e [sign] digits],
\* with a digit before or after the point, or [sign] inf | infinity | nan
ParseNumeral(t) ==
    LET n == Len(t)
        signed == n >= 1 /\ Char(t, 1) \in {"+", "-"}
        sg == IF n >= 1 /\ Char(t, 1) = "-" THEN 1 ELSE 0
        a == IF signed THEN 2 ELSE 1
        word == LowerStr(SubSeq(t, a, n))
        b == SkipDigits(t, a)
        point == b <= n /\ Char(t, b) = "."
        c == IF point THEN b + 1 ELSE b
        d == IF point THEN SkipDigits(t, c) ELSE b
        hasExp == d <= n /\ Char(t, d) \in {"e", "E"}
        esigned == hasExp /\ d + 1 <= n /\ Char(t, d + 1) \in {"+", "-"}
        eneg == esigned /\ Char(t, d + 1) = "-"
        f == IF esigned THEN d + 2 ELSE d + 1
        g == IF hasExp THEN SkipDigits(t, f) ELSE d
        ex == IF hasExp THEN ExpValFrom(SubSeq(t, f, g - 1), 1, 0) ELSE 0
        digits == SubSeq(t, a, b - 1) \o SubSeq(t, c, d - 1)
    IN  IF word \in {"inf", "infinity"} THEN Parsed(Inf(sg))
        ELSE IF word = "nan" THEN Parsed(NaN)
        ELSE IF Len(digits) = 0 THEN Failed
        ELSE IF hasExp /\ g = f THEN Failed
        ELSE IF g # n + 1 THEN Failed
        ELSE Parsed(DecToDouble(sg, BFromDigits(digits), (IF eneg THEN -ex ELSE ex) - (d - c)))

\* float(s): underscores between digits are dropped, whitespace around is stripped
ParseFloat(s) ==
    IF ~UnderscoresOk(s) THEN Failed
    ELSE LET u == DropUnderscores(s)
             i == SkipSpace(u, 1)
             j == SkipSpaceBack(u, Len(u))
         IN  IF i > Len(u) THEN Failed ELSE ParseNumeral(SubSeq(u, i, j))

\* str(e) of the ValueError float(s) raises
ValueErrorMessage(s) == "could not convert string to float: " \o StrRepr(s)

-----------------------------------------------------------------------------
(* The lines standard input may hold. *)

Lines ==
    << "abc", "2.5", "4.5", "-3", "0", "", "0.1", "0.2", "9007199254740992", "1",
       "nan", "inf", " 7 ", "1e3", "-inf", "1_000", "1e-5" >>

NumLines == 16   \* how many of Lines are tried
MaxExtra == 1    \* how many lines may follow the two that main can read

SampleLines == {Lines[i] : i \in 1..Min(NumLines, Len(Lines))}

\* float(s) of each of these lines, x + y of the floats they give, and str(v) of
\* each number main may come to print for them, worked out once
FloatTable == {<<s, ParseFloat(s)>> : s \in SampleLines}

FloatsIn(table) == {p[2].val : p \in {q \in table : q[2].ok}}
SumsOf(floats) == {<<x, y, PyAdd(x, y)>> : x \in floats, y \in floats}

AddTable == SumsOf(FloatsIn(FloatTable))

PrintableIn(table) ==
    {PyInt(n) : n \in 0..9} \cup {p[1] : p \in table} \cup {p[3] : p \in table}

StrTable == {<<v, PyStr(v)>> : v \in PrintableIn(AddTable)}

\* the entry of a table for the key, or other if it has none
Lookup(table, key, other) ==
    IF \E p \in table : p[1] = key THEN (CHOOSE p \in table : p[1] = key)[2] ELSE other

\* float(s), as lines 24 and 25 call it
float(s) == Lookup(FloatTable, s, ParseFloat(s))

\* a + b, as line 12 evaluates it
Plus(a, b) == Lookup({<<<<p[1], p[2]>>, p[3]>> : p \in AddTable}, <<a, b>>, PyAdd(a, b))

\* str(v), as the fields of the f-strings of lines 20 and 27 are written
str(v) == Lookup(StrTable, v, PyStr(v))

Inputs ==
    {<<>>}
        \cup {<<a>> : a \in SampleLines}
        \cup {<<a, b>> \o [i \in 1..n |-> Lines[1]] :
                  a \in SampleLines, b \in SampleLines, n \in 0..MaxExtra}

-----------------------------------------------------------------------------
(* src/main.py *)

None == [t |-> "None"]

\* a slip that adds the first operand to itself
add_two_numbers_Doubled(a, b) == Plus(a, a)

add_two_numbers(a, b) == Plus(a, b)

\* "The sum of {a} and {b} is: {r}": each field is written as str() gives it
SumLine(fields) ==
    LET Joined(text) == "The sum of " \o text[1] \o " and " \o text[2] \o " is: " \o text[3]
    IN  Joined([i \in 1..3 |-> str(fields[i])])

\* a slip that writes the two operands the other way round
DemoText_Swapped == SumLine(<<num2, num1, result>>)

\* the f-string of line 20
DemoText == SumLine(<<num1, num2, result>>)

\* a slip that writes the two operands the other way round
SumText_Swapped == SumLine(<<user_num2, user_num1, user_result>>)

\* the f-string of line 27
SumText == SumLine(<<user_num1, user_num2, user_result>>)

\* a slip that prints the message bare
ErrorText_Bare == exc.msg

\* the f-string of line 30: {e} is str(e)
ErrorText == "Error: " \o exc.msg

\* a slip that asks for the first number twice
PromptText_Same(k) == "Enter the first number: "

\* the prompts of lines 24 and 25
PromptText(k) == IF k = 1 THEN "Enter the first number: " ELSE "Enter the second number: "

\* print(text) writes the text and a newline
Printed(out, text) == Append(out, text \o "\n")

ValueError(msg) == [t |-> "ValueError", msg |-> msg]
EOFError == [t |-> "EOFError", msg |-> "EOF when reading a line"]

\* what the interpreter writes for an exception nothing caught
Traceback(e) == "Traceback (most recent call last):\n" \o e.t \o ": " \o e.msg \o "\n"

\* main is about to run on standard input holding the lines of in
Start(in) ==
    /\ pc = "assign"
    /\ stdin = in
    /\ stdin_pos = 0
    /\ stdout = <<>>
    /\ stderr = <<>>
    /\ line = ""
    /\ num1 = None /\ num2 = None /\ result = None
    /\ user_num1 = None /\ user_num2 = None /\ user_result = None
    /\ exc = None
    /\ exit_status = <<>>

Init ==
    /\ \E in \in Inputs : Start(in)
    /\ args = <<>>
    /\ sums = <<>>

\* lines 17-19
Assign ==
    /\ pc = "assign"
    /\ num1' = PyInt(5)
    /\ num2' = PyInt(3)
    /\ result' = add_two_numbers(PyInt(5), PyInt(3))
    /\ pc' = "print_demo"
    /\ UNCHANGED <<stdin, stdin_pos, stdout, stderr, line, user_num1, user_num2, user_result,
                   exc, exit_status, args, sums>>

\* line 20
PrintDemo ==
    /\ pc = "print_demo"
    /\ stdout' = Printed(stdout, DemoText)
    /\ pc' = "prompt1"
    /\ UNCHANGED <<stdin, stdin_pos, stderr, line, num1, num2, result, user_num1, user_num2,
                   user_result, exc, exit_status, args, sums>>

\* lines 24 and 25: input(prompt) writes the prompt, with no newline
Prompt(k) ==
    /\ pc = (IF k = 1 THEN "prompt1" ELSE "prompt2")
    /\ stdout' = Append(stdout, PromptText(k))
    /\ pc' = (IF k = 1 THEN "read1" ELSE "read2")
    /\ UNCHANGED <<stdin, stdin_pos, stderr, line, num1, num2, result, user_num1, user_num2,
                   user_result, exc, exit_status, args, sums>>

\* lines 24 and 25: input() then reads a line, or raises EOFError at end of input;
\* the try statement has no handler for EOFError, so it leaves main
Read(k) ==
    /\ pc = (IF k = 1 THEN "read1" ELSE "read2")
    /\ IF stdin_pos = Len(stdin)
       THEN /\ exc' = EOFError
            /\ pc' = "uncaught"
            /\ UNCHANGED <<stdin_pos, line>>
       ELSE /\ line' = stdin[stdin_pos + 1]
            /\ stdin_pos' = stdin_pos + 1
            /\ pc' = (IF k = 1 THEN "float1" ELSE "float2")
            /\ UNCHANGED exc
    /\ UNCHANGED <<stdin, stdout, stderr, num1, num2, result, user_num1, user_num2,
                   user_result, exit_status, args, sums>>

\* float(line) has returned r.val (the local of prompt k is bound to it) or has
\* raised the ValueError that the except clause of line 29 catches
Converted(k, r) ==
    IF r.ok
    THEN /\ IF k = 1
            THEN user_num1' = r.val /\ UNCHANGED user_num2
            ELSE user_num2' = r.val /\ UNCHANGED user_num1
         /\ pc' = (IF k = 1 THEN "prompt2" ELSE "add")
         /\ UNCHANGED exc
    ELSE /\ exc' = ValueError(ValueErrorMessage(line))
         /\ pc' = "except"
         /\ UNCHANGED <<user_num1, user_num2>>

\* a slip that takes a first line that is no number for 0.0 and goes on
Float_Lenient(k) ==
    /\ pc = (IF k = 1 THEN "float1" ELSE "float2")
    /\ Converted(k, IF k = 1 /\ ~float(line).ok THEN Parsed(Zero(0)) ELSE float(line))
    /\ UNCHANGED <<stdin, stdin_pos, stdout, stderr, line, num1, num2, result, user_result,
                   exit_status, args, sums>>

\* lines 24 and 25: float(line)
Float(k) ==
    /\ pc = (IF k = 1 THEN "float1" ELSE "float2")
    /\ Converted(k, float(line))
    /\ UNCHANGED <<stdin, stdin_pos, stdout, stderr, line, num1, num2, result, user_result,
                   exit_status, args, sums>>

\* line 26
Add ==
    /\ pc = "add"
    /\ user_result' = add_two_numbers(user_num1, user_num2)
    /\ pc' = "print_sum"
    /\ UNCHANGED <<stdin, stdin_pos, stdout, stderr, line, num1, num2, result, user_num1,
                   user_num2, exc, exit_status, args, sums>>

\* line 27
PrintSum ==
    /\ pc = "print_sum"
    /\ stdout' = Printed(stdout, SumText)
    /\ pc' = "return"
    /\ UNCHANGED <<stdin, stdin_pos, stderr, line, num1, num2, result, user_num1, user_num2,
                   user_result, exc, exit_status, args, sums>>

\* a slip that asks again after an error
Except_Retry ==
    /\ pc = "except"
    /\ stdout' = Printed(stdout, ErrorText)
    /\ exc' = None
    /\ pc' = "prompt1"
    /\ UNCHANGED <<stdin, stdin_pos, stderr, line, num1, num2, result, user_num1, user_num2,
                   user_result, exit_status, args, sums>>

\* lines 29-30: the handler prints the error; the exception is then handled
Except ==
    /\ pc = "except"
    /\ stdout' = Printed(stdout, ErrorText)
    /\ exc' = None
    /\ pc' = "return"
    /\ UNCHANGED <<stdin, stdin_pos, stderr, line, num1, num2, result, user_num1, user_num2,
                   user_result, exit_status, args, sums>>

\* lines 33-34: main returns and the interpreter ends with status 0
Return ==
    /\ pc = "return"
    /\ exit_status' = <<0>>
    /\ pc' = "done"
    /\ UNCHANGED <<stdin, stdin_pos, stdout, stderr, line, num1, num2, result, user_num1,
                   user_num2, user_result, exc, args, sums>>

\* lines 33-34: an exception leaves main; the interpreter writes the traceback to
\* standard error and ends with status 1
Uncaught ==
    /\ pc = "uncaught"
    /\ stderr' = Append(stderr, Traceback(exc))
    /\ exit_status' = <<1>>
    /\ pc' = "done"
    /\ UNCHANGED <<stdin, stdin_pos, stdout, line, num1, num2, result, user_num1, user_num2,
                   user_result, exc, args, sums>>

main ==
    \/ Assign
    \/ PrintDemo
    \/ \E k \in {1, 2} : Prompt(k)
    \/ \E k \in {1, 2} : Read(k)
    \/ \E k \in {1, 2} : Float(k)
    \/ Add
    \/ PrintSum
    \/ Except

Next == main \/ Return \/ Uncaught

Spec == Init /\ [][Next]_vars

\* A process that can take a step takes it: nothing but waiting for input suspends
\* main, and standard input here always yields a line or end of input.
FairSpec == Spec /\ WF_vars(Next)

-----------------------------------------------------------------------------
(* add_two_numbers called on its own: on a and b both ways round, on a and 0, *)
(* and on three operands grouped both ways.                                   *)

FloatTexts == << "0.1", "0.2", "9007199254740992", "1", "2.5", "nan", "-0", "inf", "-inf" >>

MaxInt == 2      \* the int operands are -MaxInt..MaxInt
NumFloats == 7   \* how many of FloatTexts are operands, as floats

Operands ==
    {PyInt(n) : n \in -MaxInt..MaxInt}
        \cup {ParseFloat(FloatTexts[i]).val : i \in 1..Min(NumFloats, Len(FloatTexts))}

AddInit ==
    /\ Start(<<>>)
    /\ args \in Operands \X Operands \X Operands
    /\ sums = <<>>

\* a + b, b + a, a + 0, 0 + a
AddPairs ==
    /\ Len(sums) = 0
    /\ sums' = << add_two_numbers(args[1], args[2]), add_two_numbers(args[2], args[1]),
                  add_two_numbers(args[1], PyInt(0)), add_two_numbers(PyInt(0), args[1]) >>
    /\ UNCHANGED <<mainVars, args>>

\* (a + b) + c, a + (b + c)
AddTriples ==
    /\ Len(sums) = 4
    /\ sums' = sums \o << add_two_numbers(sums[1], args[3]),
                         add_two_numbers(args[1], add_two_numbers(args[2], args[3])) >>
    /\ UNCHANGED <<mainVars, args>>

AddNext == AddPairs \/ AddTriples

AddSpec == AddInit /\ [][AddNext]_vars

-----------------------------------------------------------------------------
(* What is seen of a run of main: its standard output, how much of standard  *)
(* input it has read, and how it ended.                                       *)

Terminated == exit_status # <<>>

DemoLine == "The sum of 5 and 3 is: 8\n"
FirstPrompt == "Enter the first number: "
SecondPrompt == "Enter the second number: "

IsPrompt(w) == w \in {FirstPrompt, SecondPrompt}
IsLine(w) == ~IsPrompt(w)

\* the prompts written so far, in order
Prompts == SelectSeq(stdout, IsPrompt)

\* standard output so far, prompts aside
OutLines == SelectSeq(stdout, IsLine)

StartsWith(w, p) == Len(w) >= Len(p) /\ SubSeq(w, 1, Len(p)) = p
IsErrorLine(w) == StartsWith(w, "Error: ")
IsSumLine(w) == StartsWith(w, "The sum of ")

ErrorLines == SelectSeq(stdout, IsErrorLine)

\* the sum lines after the demonstration line
UserSumLines == SelectSeq(Tail(OutLines), IsSumLine)

\* what float() makes of the k-th line of standard input
Entered(k) == float(stdin[k])

FirstParses == Len(stdin) >= 1 /\ Entered(1).ok
FirstFails == Len(stdin) >= 1 /\ ~Entered(1).ok
SecondParses == Len(stdin) >= 2 /\ Entered(2).ok
SecondFails == Len(stdin) >= 2 /\ ~Entered(2).ok

\* the line print() writes for the ValueError that float(text) raises
ErrorLineFor(text) == "Error: could not convert string to float: '" \o text \o "'\n"

\* the user sum line for the values x and y
SumLineFor(x, y) ==
    "The sum of " \o str(x) \o " and " \o str(y) \o " is: " \o str(PyAdd(x, y)) \o "\n"

-----------------------------------------------------------------------------
(* The claims. *)

\* C1 (as stated): every execution ends with exit status 0 and no uncaught
\* exception, whatever standard input supplies, end of input included.
C1_AlwaysExitsZero == Terminated => exit_status = <<0>> /\ stderr = <<>>

\* C2: if float() fails on the first line, or on the second after the first was
\* parsed, then main has printed, when it ends, exactly one Error line, the one
\* holding the ValueError's message, and no sum line for user values, and it
\* ends normally.
C2_ParseFailureReported ==
    Terminated /\ (FirstFails \/ (FirstParses /\ SecondFails)) =>
        /\ OutLines = <<DemoLine, ErrorLineFor(IF FirstFails THEN stdin[1] ELSE stdin[2])>>
        /\ Len(ErrorLines) = 1
        /\ UserSumLines = <<>>
        /\ exit_status = <<0>>

\* C2 witness: a run has ended where the first line was a number and the second not
C2_SecondLineFailed == Terminated /\ FirstParses /\ SecondFails

\* C3: whatever standard input holds, the first write to standard output is the
\* line "The sum of 5 and 3 is: 8"; nothing is read before it is written, and no
\* run ends without it.
C3_DemoFirst ==
    /\ stdout # <<>> => stdout[1] = DemoLine
    /\ stdout = <<>> => stdin_pos = 0 /\ ~Terminated

\* C3 witness: prompts were written and input was read after the demonstration line
C3_DemoThenInput == Len(stdout) >= 3 /\ stdin_pos = 2 /\ stdout[1] = DemoLine

\* C4: when both lines parse, to x and y, main has printed, when it ends, the
\* demonstration line and then exactly one user sum line, "The sum of {x} and {y}
\* is: {r}" with x and y in the order entered and r = add_two_numbers(x, y);
\* -3 and 0 give -3, written as floats are.
C4_UserSumLine ==
    Terminated /\ FirstParses /\ SecondParses =>
        /\ OutLines = <<DemoLine, SumLineFor(Entered(1).val, Entered(2).val)>>
        /\ Len(UserSumLines) = 1
        /\ user_result = add_two_numbers(user_num1, user_num2)
        /\ stdin[1] = "-3" /\ stdin[2] = "0" =>
               OutLines[2] = "The sum of -3.0 and 0.0 is: -3.0\n"
        /\ stdin[1] = "2.5" /\ stdin[2] = "4.5" =>
               OutLines[2] = "The sum of 2.5 and 4.5 is: 7.0\n"
        /\ stdin[1] = "0.1" /\ stdin[2] = "0.2" =>
               OutLines[2] = "The sum of 0.1 and 0.2 is: 0.30000000000000004\n"
        /\ stdin[1] = " 7 " /\ stdin[2] = "1_000" =>
               OutLines[2] = "The sum of 7.0 and 1000.0 is: 1007.0\n"

\* C4 witness: a run on the lines -3 and 0 has ended
C4_MinusThreeAndZero == Terminated /\ Len(stdin) >= 2 /\ stdin[1] = "-3" /\ stdin[2] = "0"

\* once the Error line is out, nothing more is written and nothing more is read
NoRetry == ErrorLines # <<>> => stdout' = stdout /\ stdin_pos' = stdin_pos

\* each prompt is written at most once
PromptsAtMostOnce == Prompts \in {<<>>, <<FirstPrompt>>, <<FirstPrompt, SecondPrompt>>}

\* C5: every run ends; each of the two prompts is issued at most once, and after
\* a parse failure nothing is asked or read again.
C5_Terminates == <>Terminated /\ []PromptsAtMostOnce /\ [][NoRetry]_vars

\* C5 witness: a run has ended after a parse failure on the first of several lines
C5_EndedAfterFailure == Terminated /\ FirstFails /\ Len(stdin) >= 2

IsInt(v) == v.t = "int"
IsNaN(v) == v.t = "float" /\ v.c = "nan"

\* Python's == on two sums, a nan counting as equal to a nan
SameSum(x, y) == PyEq(x, y) \/ (IsNaN(x) /\ IsNaN(y))

\* C6 (as stated): for all the operands a, b, c, ints and floats alike,
\* a + b = b + a, (a + b) + c = a + (b + c), and a + 0 = 0 + a = a
\* (read in the claim's favour: nan counts as equal to nan).
C6_AllNumbers ==
    Len(sums) = 6 =>
        /\ SameSum(sums[1], sums[2])
        /\ SameSum(sums[5], sums[6])
        /\ SameSum(sums[3], args[1]) /\ SameSum(sums[4], args[1])

\* C6 (amended): add_two_numbers(a, b) is Python's a + b, the exact sum for ints;
\* it is commutative and has 0 as identity, a nan operand giving nan; and it is
\* associative on ints.
C6_IntsAndFloats ==
    /\ Len(sums) >= 4 =>
        /\ sums[1] = PyAdd(args[1], args[2])
        /\ IsInt(args[1]) /\ IsInt(args[2]) => sums[1] = PyInt(args[1].v + args[2].v)
        /\ SameSum(sums[1], sums[2])
        /\ SameSum(sums[3], args[1]) /\ SameSum(sums[4], args[1])
        /\ IsInt(args[1]) => sums[3] = args[1] /\ sums[4] = args[1]
    /\ Len(sums) = 6 /\ IsInt(args[1]) /\ IsInt(args[2]) /\ IsInt(args[3]) =>
        /\ sums[5] = sums[6]
        /\ sums[5] = PyInt(args[1].v + args[2].v + args[3].v)

\* C6 witness: the sums of 1, 2 and -2 were taken
C6_SumsTaken == Len(sums) = 6 /\ args = <<PyInt(1), PyInt(2), PyInt(-2)>>

\* C7 (as stated): every run issues the first prompt and then the second, and
\* reads a line for each (looked at where standard input holds a line for each).
C7_BothPromptsAlways ==
    Terminated /\ Len(stdin) >= 2 => Prompts = <<FirstPrompt, SecondPrompt>> /\ stdin_pos = 2

\* C7 (amended): every run issues the first prompt; the second follows it, once,
\* exactly in the runs whose first line was read and parsed; and a line is read
\* for each prompt issued as long as standard input holds one.
C7_PromptsInOrder ==
    /\ PromptsAtMostOnce
    /\ stdin_pos = Min(Len(Prompts), Len(stdin)) \/ stdin_pos = Min(Len(Prompts), Len(stdin)) - 1
    /\ Terminated =>
        /\ Len(Prompts) = (IF FirstParses THEN 2 ELSE 1)
        /\ stdin_pos = Min(Len(Prompts), Len(stdin))

\* C7 witness: a run has ended with the first prompt only, its line read
C7_OnePromptOnly == Terminated /\ Prompts = <<FirstPrompt>> /\ stdin_pos = 1

\* C8 (as stated): when a run has ended, standard output, prompts aside, is two
\* lines: the demonstration line, then a user sum line or an Error line.
C8_ExactlyTwoLines ==
    Terminated =>
        /\ Len(OutLines) = 2
        /\ OutLines[1] = DemoLine
        /\ IsSumLine(OutLines[2]) \/ IsErrorLine(OutLines[2])
        /\ Len(ErrorLines) + Len(UserSumLines) = 1

\* C9: the second prompt is written, and a second line read, only when the first
\* line has been read and parsed; when the first line fails to parse, the run
\* ends with the Error line printed, no second prompt and one line read.
C9_SecondOnlyAfterFirst ==
    /\ Len(Prompts) >= 2 \/ stdin_pos >= 2 =>
        /\ FirstParses
        /\ user_num1 = Entered(1).val
        /\ Prompts = <<FirstPrompt, SecondPrompt>>
    /\ Terminated /\ FirstFails =>
        /\ Prompts = <<FirstPrompt>>
        /\ stdin_pos = 1
        /\ Len(ErrorLines) = 1

\* C9 witness: a run has ended on a first line that is no number, the line after
\* it left unread
C9_SecondLineUnread == Terminated /\ FirstFails /\ Len(stdin) >= 2 /\ stdin_pos = 1

====
